---- MODULE Spec2Model ----
(***************************************************************************)
(* A model of pygithooks (src/pygithooks.py): one invocation of the tool,  *)
(* from main() to the end of the process.  The state is the Ctx object     *)
(* (env, console/stdout/stderr), the PyGitHooks object (action, hook), the *)
(* locals of PyGitHooks.run (the discovered scripts, the loop position,    *)
(* results), the child processes, and the part of the world the tool reads *)
(* (the directory <repo>/.pygithooks/<hook>/ and what each entry does when *)
(* it is executed), and what an installed hook (HOOK_TEMPLATE) does when   *)
(* git executes it afterwards.                                             *)
(***************************************************************************)
EXTENDS Integers, Sequences, FiniteSets, TLC

(***************************************************************************)
(* Bounds of the model.                                                    *)
(***************************************************************************)
MaxEntries == 3     \* entries of the hook directory, of any kind (Spec)
MaxScripts == 4     \* entries of the hook directory, scripts only (Spec)
MaxListed == 3      \* entries of the hook directory (SpecDiscovery)
MaxNameLen == 2     \* characters of an entry name (SpecDiscovery)
MaxRc == 2          \* return codes of a script are 0..MaxRc
MaxOut == 1         \* bytes a script writes to its stdout (SpecRelay)
MaxArgv == 4        \* command-line tokens after the options
MaxPathLen == 1     \* tokens of the original PATH (SpecEnv)
MaxGitArgs == 2     \* arguments git passes to an installed hook

(***************************************************************************)
(* Program constants: the exit statuses of the process.                    *)
(***************************************************************************)
EXIT_SUCCEEDED == 0
EXIT_SKIPPED == 0
EXIT_FAILED == 1
EXIT_USAGE == 1
EXIT_INTERNAL == 2
EXIT_ARGPARSE == 2
EXIT_RETURN == 0
EXIT_DISPATCH == 0

GIT_HOOKS == {"pre-commit"}

\* Strings are sequences of tokens; these are the tokens PATH is made of.
SysExeDir == "sys.executable.parent"
PathSep == "os.pathsep"

\* Optional values: None is <<>>, a value v is <<v>>.
None == <<>>
Some(v) == <<v>>

VARIABLES
    pc,         \* position of the process in main() and run()
    argv,       \* Ctx.argv[1:] without the options
    env,        \* Ctx.env: the tool's copy of os.environ, passed to children
    environ,    \* os.environ as it was when Ctx was constructed
    hookDir,    \* <repo>/.pygithooks/<hook>: [kind, entries]
    action,     \* PyGitHooks.action: "run", "install", "help"
    hook,       \* the `hook` argument of run
    scripts,    \* the list git_hook_scripts() yielded
    idx,        \* index in scripts of the current iteration of the loop
    results,    \* run's `results` list
    children,   \* indexes of the scripts whose child process exists
    launches,   \* history: every spawn attempt, [name, env]
    events,     \* everything written to console, stderr, stdout, in order
    verdict,    \* "none", "SUCCEEDED", "SKIPPED", "FAILED"
    fault,      \* "none", "argparse", "usage", "internal"
    exitCode,   \* None while the process runs, Some(status) once it ended
    installed,  \* files written by install: hook -> [text, executable]
    dispatched  \* None, or Some(what one run of an installed hook did)

vars == <<pc, argv, env, environ, hookDir, action, hook, scripts, idx, results,
          children, launches, events, verdict, fault, exitCode, installed,
          dispatched>>

(***************************************************************************)
(* Entry names and their order.  sorted() compares Path objects of one     *)
(* directory, which compares the names as str: codepoint by codepoint,     *)
(* a proper prefix first.                                                  *)
(***************************************************************************)
Names == UNION {[1..n -> {0, 1}] : n \in 1..MaxNameLen}

BaseNames(n) == {<<i>> : i \in 0..(n - 1)}

RECURSIVE NameLessFrom(_, _, _)
NameLessFrom(a, b, i) ==
    IF i > Len(a) \/ i > Len(b) THEN Len(a) < Len(b)
    ELSE IF a[i] # b[i] THEN a[i] < b[i]
    ELSE NameLessFrom(a, b, i + 1)

NameLess(a, b) == NameLessFrom(a, b, 1)

RECURSIVE Insert(_, _)
Insert(s, x) ==
    IF s = <<>> THEN <<x>>
    ELSE IF NameLess(x, Head(s)) THEN <<x>> \o s
    ELSE <<Head(s)>> \o Insert(Tail(s), x)

\* A sorted() that leaves the listing as the filesystem gave it.
sorted_as_listed(s) == s

RECURSIVE sorted(_)
sorted(s) == IF s = <<>> THEN <<>> ELSE Insert(sorted(Tail(s)), Head(s))

\* Path.iterdir(): the entries in an arbitrary order, each once.
iterdir(entries) ==
    LET S == DOMAIN entries
        n == Cardinality(S)
    IN {l \in [1..n -> S] : \A i, j \in 1..n : i # j => l[i] # l[j]}

(***************************************************************************)
(* What an entry does when it is executed.  spawns: the child process      *)
(* starts (otherwise Popen raises an OSError); hangs: the child never      *)
(* terminates; rc, out, err: its return code and the bytes it writes.      *)
(***************************************************************************)
Bytes == {"a", "CR", "LF", "0xFF"}

NoSpawn == [spawns |-> FALSE, hangs |-> FALSE, rc |-> 0, out |-> <<>>, err |-> <<>>]

Hangs == [spawns |-> TRUE, hangs |-> TRUE, rc |-> 0, out |-> <<>>, err |-> <<>>]

Exits(rcs, outs, errs) ==
    {[spawns |-> TRUE, hangs |-> FALSE, rc |-> r, out |-> o, err |-> e] :
        r \in rcs, o \in outs, e \in errs}

RawUpTo(n) == UNION {[1..k -> Bytes] : k \in 0..n}

\* An executable regular file with one of the behaviours `behs`.
ExecFiles(behs) == {[kind |-> "file", xbit |-> TRUE, beh |-> b] : b \in behs}

\* A file without the owner's execute bit, a directory (owner's search bit
\* set), a symlink to nothing: executing any of them is an OSError.
NonScripts ==
    {[kind |-> "file", xbit |-> FALSE, beh |-> NoSpawn],
     [kind |-> "dir", xbit |-> TRUE, beh |-> NoSpawn],
     [kind |-> "dangling", xbit |-> FALSE, beh |-> NoSpawn]}

\* The hook directories with at most n entries named in `names`.
Dirs(names, n, attrs) ==
    {[kind |-> "absent", entries |-> <<>>], [kind |-> "file", entries |-> <<>>]}
    \cup {[kind |-> "dir", entries |-> e] :
            e \in UNION {[S -> attrs] :
                    S \in {T \in SUBSET names : Cardinality(T) <= n}}}

(***************************************************************************)
(* text=True: the captured bytes are decoded (UnicodeDecodeError on an     *)
(* invalid byte) and "\r\n" and "\r" are translated to "\n".               *)
(***************************************************************************)
Undecodable(raw) == \E i \in 1..Len(raw) : raw[i] = "0xFF"

RECURSIVE TranslateNewlines(_)
TranslateNewlines(raw) ==
    IF raw = <<>> THEN <<>>
    ELSE IF Head(raw) = "CR" THEN
        IF Len(raw) >= 2 /\ raw[2] = "LF"
        THEN <<"LF">> \o TranslateNewlines(Tail(Tail(raw)))
        ELSE <<"LF">> \o TranslateNewlines(Tail(raw))
    ELSE <<Head(raw)>> \o TranslateNewlines(Tail(raw))

(***************************************************************************)
(* The command line: parser.parse_args(argv[1:]) for the tokens after the  *)
(* options.  The first "--" is dropped where a positional is expected.     *)
(***************************************************************************)
Tokens == {"run", "install", "pre-commit", "--", "a"}

Argvs == UNION {[1..n -> Tokens] : n \in 0..MaxArgv}

RECURSIVE StripDashDash(_)
StripDashDash(s) ==
    IF s = <<>> THEN <<>>
    ELSE IF Head(s) = "--" THEN Tail(s)
    ELSE <<Head(s)>> \o StripDashDash(Tail(s))

ParseError == [ok |-> FALSE, action |-> "none", hook |-> "none"]

parse_args(args) ==
    IF args = <<>> THEN [ok |-> TRUE, action |-> "help", hook |-> "none"]
    ELSE IF Head(args) = "install" THEN
        IF Len(args) = 1
        THEN [ok |-> TRUE, action |-> "install", hook |-> "none"]
        ELSE ParseError
    ELSE IF Head(args) = "run" THEN
        LET rest == StripDashDash(Tail(args))
        IN IF Len(rest) = 1 /\ rest[1] \in GIT_HOOKS
           THEN [ok |-> TRUE, action |-> "run", hook |-> rest[1]]
           ELSE ParseError
    ELSE ParseError


(***************************************************************************)
(* CompletedGitHookScript and the aggregation of the results.              *)
(***************************************************************************)
skipped(r) == r.completed_process = None

succeeded(r) ==
    r.completed_process # None /\ r.completed_process[1].returncode = 0

failed(r) == ~succeeded(r) /\ ~skipped(r)

\* The status line run() prints for a result.
\* A result that has a completed process counts as OK.
status_line_started(r) ==
    IF r.completed_process # None THEN "OK" ELSE "SKIPPED"

status_line(r) ==
    IF succeeded(r) THEN "OK" ELSE IF skipped(r) THEN "SKIPPED" ELSE "FAILED"

\* A hooks_verdict that forgets the failures once a script succeeded.
hooks_verdict_any(rs) ==
    LET all_succeeded ==
            \A i \in 1..Len(rs) : succeeded(rs[i]) \/ skipped(rs[i])
        any_succeeded == \E i \in 1..Len(rs) : succeeded(rs[i])
    IN IF any_succeeded THEN "SUCCEEDED"
       ELSE IF all_succeeded THEN "SKIPPED"
       ELSE "FAILED"

\* A hooks_verdict for which no failure is a success, also with no script.
hooks_verdict_vacuous(rs) ==
    LET all_succeeded ==
            \A i \in 1..Len(rs) : succeeded(rs[i]) \/ skipped(rs[i])
        any_succeeded == \E i \in 1..Len(rs) : succeeded(rs[i])
    IN IF all_succeeded /\ (any_succeeded \/ rs = <<>>) THEN "SUCCEEDED"
       ELSE IF all_succeeded THEN "SKIPPED"
       ELSE "FAILED"

\* The end of run(): the verdict line it prints for `rs`.
hooks_verdict(rs) ==
    LET all_succeeded ==
            \A i \in 1..Len(rs) : succeeded(rs[i]) \/ skipped(rs[i])
        any_succeeded == \E i \in 1..Len(rs) : succeeded(rs[i])
    IN IF any_succeeded /\ all_succeeded THEN "SUCCEEDED"
       ELSE IF all_succeeded THEN "SKIPPED"
       ELSE "FAILED"

\* A hooks_exit for which only SUCCEEDED is a zero status.
hooks_exit_strict(v) ==
    IF v = "SUCCEEDED" THEN EXIT_SUCCEEDED ELSE EXIT_FAILED

\* The end of run(): the status it passes to sys.exit() with that line.
hooks_exit(v) ==
    IF v = "SUCCEEDED" THEN EXIT_SUCCEEDED
    ELSE IF v = "SKIPPED" THEN EXIT_SKIPPED
    ELSE EXIT_FAILED

(***************************************************************************)
(* Discovery.  scripts: the GitHookScripts yielded; raised: path.stat()    *)
(* raised an OSError (the list is built before anything is yielded).       *)
(***************************************************************************)
GitHookScript(git_hook, name) == [git_hook |-> git_hook, name |-> name]

git_hook_scripts(dir, git_hook, listing) ==
    IF dir.kind # "dir" THEN [raised |-> FALSE, scripts |-> <<>>]
    ELSE
        LET paths == sorted(listing)
            S_IEXEC(name) == dir.entries[name].xbit
            chosen == SelectSeq(paths, S_IEXEC)
        IN IF \E i \in 1..Len(paths) : dir.entries[paths[i]].kind = "dangling"
           THEN [raised |-> TRUE, scripts |-> <<>>]
           ELSE [raised |-> FALSE,
                 scripts |-> [i \in 1..Len(chosen) |->
                                 GitHookScript(git_hook, chosen[i])]]

(***************************************************************************)
(* The environment.  A dict is a function on the keys it has.              *)
(***************************************************************************)
env_path(e) == IF "PATH" \in DOMAIN e THEN e["PATH"] ELSE <<>>

\* The interpreter's directory appended to PATH instead of prepended.
env_path_with_sys_exe_suffix(e) == env_path(e) \o <<PathSep, SysExeDir>>

env_path_with_sys_exe_prefix(e) == <<SysExeDir, PathSep>> \o env_path(e)

set_env_path(e, path) ==
    [k \in DOMAIN e \cup {"PATH"} |-> IF k = "PATH" THEN path ELSE e[k]]

(***************************************************************************)
(* The error handlers main() installs: the exit status for an exception    *)
(* that leaves PyGitHooks(ctx) or py_git_hooks.main().                     *)
(***************************************************************************)
fancy_ctx_aware_error_handler(exc) ==
    IF exc = "PyGitHooksUsageError" THEN EXIT_USAGE ELSE EXIT_INTERNAL

\* Every exception reported as a usage error.
fault_of_any(exc) == "usage"

fault_of(exc) == IF exc = "PyGitHooksUsageError" THEN "usage" ELSE "internal"

msg(tag, name) == [stream |-> "msg", tag |-> tag, script |-> name, text |-> <<>>]

write(stream, name, text) ==
    [stream |-> stream, tag |-> "write", script |-> name, text |-> text]

\* sys.exit(status) after printing `lines`.
Exit(status, how, lines) ==
    /\ pc' = "exited"
    /\ exitCode' = Some(status)
    /\ fault' = how
    /\ events' = events \o lines

\* `exc` propagates to fancy_ctx_aware_error_handler, after `lines`.
Raise(exc, lines) ==
    Exit(fancy_ctx_aware_error_handler(exc), fault_of(exc),
         lines \o <<msg(IF exc = "PyGitHooksUsageError" THEN "ERROR"
                        ELSE "INTERNAL ERROR", <<>>)>>)

(***************************************************************************)
(* Running one script: subprocess.run(), and the except clause of          *)
(* _run_git_hook_script.                                                   *)
(***************************************************************************)
CompletedProcess(b) ==
    [returncode |-> b.rc,
     stdout |-> TranslateNewlines(b.out),
     stderr |-> TranslateNewlines(b.err)]

\* No except clause: the OSError of a failed spawn propagates.
except_nothing(exc) == FALSE

except_OSError(exc) == exc = "OSError"

CompletedGitHookScript(script, completed_process) ==
    [git_hook_script |-> script, completed_process |-> completed_process]

\* A relay() that drops the output of a script that returned non-zero.
relay_on_success(r) ==
    IF r.completed_process # None /\ r.completed_process[1].returncode = 0
    THEN <<write("stderr", r.git_hook_script.name, r.completed_process[1].stderr),
           write("stdout", r.git_hook_script.name, r.completed_process[1].stdout)>>
    ELSE <<>>

\* What run() writes after the status line of a result.
relay(r) ==
    IF r.completed_process # None
    THEN <<write("stderr", r.git_hook_script.name, r.completed_process[1].stderr),
           write("stdout", r.git_hook_script.name, r.completed_process[1].stdout)>>
    ELSE <<>>

(***************************************************************************)
(* The initial states: the command line, the environment and the hook      *)
(* directory are the inputs of an invocation.                              *)
(***************************************************************************)
Env(path, home) ==
    [k \in (IF path # None THEN {"PATH"} ELSE {})
           \cup (IF home # None THEN {"HOME"} ELSE {}) |->
        IF k = "PATH" THEN path[1] ELSE home[1]]

DefaultEnv == Env(Some(<<"/usr/bin">>), Some(<<"/root">>))

PathValues ==
    UNION {[1..n -> {SysExeDir, PathSep, "/usr/bin"}] : n \in 0..MaxPathLen}

Envs ==
    {Env(p, h) : p \in {None} \cup {Some(v) : v \in PathValues},
                 h \in {None, Some(<<"/root">>), Some(<<"/home">>)}}

RunArgv == <<"run", "pre-commit">>

AbsentDir == [kind |-> "absent", entries |-> <<>>]

TwoNames == {<<0>>, <<1>>}

ControlBehs ==
    {NoSpawn, Hangs} \cup Exits(0..MaxRc, {<<>>}, {<<>>})
    \cup Exits({0}, {<<"0xFF">>}, {<<>>})

ControlDirs ==
    Dirs(BaseNames(MaxEntries), MaxEntries, ExecFiles(ControlBehs) \cup NonScripts)

\* Scripts that exit or cannot start, nothing else in the directory.
ScriptDirs ==
    Dirs(BaseNames(MaxScripts), MaxScripts,
         ExecFiles({NoSpawn} \cup Exits({0, MaxRc}, {<<>>}, {<<>>})))

DiscoveryDirs ==
    Dirs(Names, MaxListed,
         ExecFiles(Exits({0}, {<<>>}, {<<>>}))
         \cup {[kind |-> "file", xbit |-> FALSE, beh |-> NoSpawn]})

RelayDirs ==
    Dirs(TwoNames, Cardinality(TwoNames),
         ExecFiles({NoSpawn}
                   \cup Exits({0, MaxRc}, RawUpTo(MaxOut),
                              {<<>>} \cup {<<b>> : b \in Bytes})))

EnvDirs ==
    Dirs(TwoNames, Cardinality(TwoNames),
         ExecFiles({NoSpawn} \cup Exits({0, MaxRc}, {<<>>}, {<<>>})))

(***************************************************************************)
(* HOOK_TEMPLATE.format(sys_exe, pygithooks, hook): the text of an         *)
(* installed hook, and what /bin/sh does with it when git executes it with *)
(* the arguments args: `found` is whether `command -v "$sys_exe"`          *)
(* succeeds.  The hook either replaces itself by the tool (exec) or writes *)
(* its warning to stderr and exits.                                        *)
(***************************************************************************)
sys_executable == "sys.executable"
FILE == "pygithooks.py"

GitArgTokens == {"a", "--"}

GitArgs == UNION {[1..n -> GitArgTokens] : n \in 0..MaxGitArgs}

HOOK_TEMPLATE(sys_exe, pygithooks, git_hook) ==
    [sys_exe |-> sys_exe, pygithooks |-> pygithooks, hook |-> git_hook]

\* The hook fails when the interpreter is missing.
sh_fail_closed(text, found, args) ==
    IF found
    THEN [exec |-> Some(<<text.sys_exe, text.pygithooks, "run", text.hook, "--">>
                            \o args),
          stderr |-> <<>>, status |-> None]
    ELSE [exec |-> None, stderr |-> <<"not found, no hooks running">>,
          status |-> Some(EXIT_FAILED)]

sh(text, found, args) ==
    IF found
    THEN [exec |-> Some(<<text.sys_exe, text.pygithooks, "run", text.hook, "--">>
                            \o args),
          stderr |-> <<>>, status |-> None]
    ELSE [exec |-> None, stderr |-> <<"not found, no hooks running">>,
          status |-> Some(EXIT_DISPATCH)]

InitWith(argvs, envs, dirs) ==
    /\ pc = "post_init"
    /\ argv \in argvs
    /\ environ \in envs
    /\ env = environ
    /\ hookDir \in dirs
    /\ action = "none"
    /\ hook = "none"
    /\ scripts = <<>>
    /\ idx = 0
    /\ results = <<>>
    /\ children = {}
    /\ launches = <<>>
    /\ events = <<>>
    /\ verdict = "none"
    /\ fault = "none"
    /\ exitCode = None
    /\ installed = <<>>
    /\ dispatched = None

\* Any command line, no hook directory.
InitArgv == InitWith(Argvs, {DefaultEnv}, {AbsentDir})

Init ==
    \/ InitArgv
    \/ InitWith({RunArgv}, {DefaultEnv}, ControlDirs)
    \/ InitWith({RunArgv}, {DefaultEnv}, ScriptDirs)

InitDiscovery == InitArgv \/ InitWith({RunArgv}, {DefaultEnv}, DiscoveryDirs)

InitRelay == InitArgv \/ InitWith({RunArgv}, {DefaultEnv}, RelayDirs)

InitEnv == InitArgv \/ InitWith({RunArgv}, Envs, EnvDirs)

(***************************************************************************)
(* main(): PyGitHooks(ctx), that is __post_init__.                         *)
(***************************************************************************)
PostInit ==
    /\ pc = "post_init"
    /\ \E chdir \in {"none", "dir", "notdir"}, git_repo, in_repo \in BOOLEAN :
        LET parsed == parse_args(argv)
        IN IF ~parsed.ok THEN
               /\ Exit(EXIT_ARGPARSE, "argparse", <<msg("usage", <<>>)>>)
               /\ UNCHANGED <<action, hook>>
           ELSE IF chdir = "notdir" \/ (~git_repo /\ ~in_repo) THEN
               /\ Raise("PyGitHooksUsageError", <<>>)
               /\ UNCHANGED <<action, hook>>
           ELSE
               /\ action' = parsed.action
               /\ hook' = parsed.hook
               /\ pc' = "main"
               /\ UNCHANGED <<exitCode, fault, events>>
    /\ UNCHANGED <<argv, env, environ, hookDir, scripts, idx, results,
                   children, launches, verdict, installed, dispatched>>

(***************************************************************************)
(* py_git_hooks.main() with action = help: main() returns.                 *)
(***************************************************************************)
Help ==
    /\ pc = "main"
    /\ action = "help"
    /\ Exit(EXIT_RETURN, "none", <<msg("help", <<>>)>>)
    /\ UNCHANGED <<argv, env, environ, hookDir, action, hook, scripts, idx,
                   results, children, launches, verdict,
                   installed, dispatched>>

(***************************************************************************)
(* py_git_hooks.main() with action = install.                              *)
(***************************************************************************)
Install ==
    /\ pc = "main"
    /\ action = "install"
    /\ \E git_ok \in BOOLEAN :
        IF ~git_ok THEN
            \* git_hooks_path: `git config` failed, nothing is written
            /\ Raise("CalledProcessError", <<>>)
            /\ UNCHANGED installed
        ELSE
            \/ \* write_text or chmod raised at hook f, after the hooks in done
               \E f \in GIT_HOOKS, wrote, mode \in BOOLEAN :
                 \E done \in SUBSET (GIT_HOOKS \ {f}) :
                    /\ installed' =
                          [h \in done \cup (IF wrote THEN {f} ELSE {}) |->
                              [text |-> HOOK_TEMPLATE(sys_executable, FILE, h),
                               executable |-> (h \in done \/ mode)]]
                    /\ Raise("OSError", <<msg("installing", <<>>)>>)
            \/ /\ installed' =
                      [h \in GIT_HOOKS |->
                          [text |-> HOOK_TEMPLATE(sys_executable, FILE, h),
                           executable |-> TRUE]]
               /\ Exit(EXIT_RETURN, "none", <<msg("installing", <<>>)>>)
    /\ UNCHANGED <<argv, env, environ, hookDir, action, hook, scripts, idx,
                   results, children, launches, verdict, dispatched>>

(***************************************************************************)
(* run(): the message, the PATH prefix, and the first next() of            *)
(* git_hook_scripts(), which builds the whole list.                        *)
(***************************************************************************)
RunBegin ==
    /\ pc = "main"
    /\ action = "run"
    /\ env' = set_env_path(env, env_path_with_sys_exe_prefix(env))
    /\ \E listing \in iterdir(hookDir.entries) :
        LET found == git_hook_scripts(hookDir, hook, listing)
        IN IF found.raised THEN
               /\ Raise("OSError", <<msg("running", <<>>)>>)
               /\ UNCHANGED <<scripts, idx>>
           ELSE
               /\ scripts' = found.scripts
               /\ idx' = 1
               /\ pc' = "loop"
               /\ events' = Append(events, msg("running", <<>>))
               /\ UNCHANGED <<exitCode, fault>>
    /\ UNCHANGED <<argv, environ, hookDir, action, hook, results, children,
                   launches, verdict, installed, dispatched>>

(***************************************************************************)
(* run(): one iteration of the loop, in four steps.  Launch is the spawn   *)
(* in subprocess.run(); ChildExit is the end of communicate() and wait().  *)
(***************************************************************************)
\* The child is started and the loop goes on without waiting for it.
Launch_without_wait ==
    /\ pc = "loop"
    /\ idx <= Len(scripts)
    /\ LET script == scripts[idx]
           b == hookDir.entries[script.name].beh
       IN /\ launches' = Append(launches, [name |-> script.name, env |-> env])
          /\ children' = IF b.spawns THEN children \cup {idx} ELSE children
          /\ results' = Append(results, CompletedGitHookScript(script, None))
          /\ pc' = "status"
    /\ UNCHANGED <<argv, env, environ, hookDir, action, hook, scripts, idx,
                   verdict, installed, dispatched, exitCode, fault, events>>

Launch ==
    /\ pc = "loop"
    /\ idx <= Len(scripts)
    /\ LET script == scripts[idx]
           b == hookDir.entries[script.name].beh
       IN /\ launches' = Append(launches, [name |-> script.name, env |-> env])
          /\ IF b.spawns THEN
                 /\ children' = children \cup {idx}
                 /\ pc' = "communicate"
                 /\ UNCHANGED <<results, exitCode, fault, events>>
             ELSE IF except_OSError("OSError") THEN
                 /\ results' = Append(results, CompletedGitHookScript(script, None))
                 /\ pc' = "status"
                 /\ UNCHANGED <<children, exitCode, fault, events>>
             ELSE
                 /\ Raise("OSError", <<>>)
                 /\ UNCHANGED <<children, results>>
    /\ UNCHANGED <<argv, env, environ, hookDir, action, hook, scripts, idx,
                   verdict, installed, dispatched>>

ChildExit ==
    /\ pc = "communicate"
    /\ LET script == scripts[idx]
           b == hookDir.entries[script.name].beh
           exc == IF Undecodable(b.out) \/ Undecodable(b.err)
                  THEN "UnicodeDecodeError" ELSE "none"
       IN /\ ~b.hangs
          /\ children' = children \ {idx}
          /\ IF exc = "none" THEN
                 /\ results' = Append(results,
                        CompletedGitHookScript(script, Some(CompletedProcess(b))))
                 /\ pc' = "status"
                 /\ UNCHANGED <<exitCode, fault, events>>
             ELSE IF except_OSError(exc) THEN
                 /\ results' = Append(results, CompletedGitHookScript(script, None))
                 /\ pc' = "status"
                 /\ UNCHANGED <<exitCode, fault, events>>
             ELSE
                 /\ Raise(exc, <<>>)
                 /\ UNCHANGED results
    /\ UNCHANGED <<argv, env, environ, hookDir, action, hook, scripts, idx,
                   launches, verdict, installed, dispatched>>

\* The captured output is written before the status line.
Status_after_output ==
    /\ pc = "status"
    /\ events' = events \o relay(results[idx])
                    \o <<msg(status_line(results[idx]),
                             results[idx].git_hook_script.name)>>
    /\ pc' = "relay"
    /\ UNCHANGED <<argv, env, environ, hookDir, action, hook, scripts, idx,
                   results, children, launches, verdict, fault, exitCode,
                   installed, dispatched>>

Status ==
    /\ pc = "status"
    /\ events' = Append(events, msg(status_line(results[idx]),
                                    results[idx].git_hook_script.name))
    /\ pc' = "relay"
    /\ UNCHANGED <<argv, env, environ, hookDir, action, hook, scripts, idx,
                   results, children, launches, verdict, fault, exitCode,
                   installed, dispatched>>

Relay ==
    /\ pc = "relay"
    /\ events' = events \o relay(results[idx])
    /\ idx' = idx + 1
    /\ pc' = "loop"
    /\ UNCHANGED <<argv, env, environ, hookDir, action, hook, scripts,
                   results, children, launches, verdict, fault, exitCode,
                   installed, dispatched>>

(***************************************************************************)
(* run(): after the loop, the verdict line and sys.exit().                 *)
(***************************************************************************)
Finish ==
    /\ pc = "loop"
    /\ idx > Len(scripts)
    /\ verdict' = hooks_verdict(results)
    /\ Exit(hooks_exit(verdict'), "none",
            <<[stream |-> "msg", tag |-> "verdict", script |-> <<>>,
               text |-> <<verdict'>>]>>)
    /\ UNCHANGED <<argv, env, environ, hookDir, action, hook, scripts, idx,
                   results, children, launches, installed, dispatched>>

(***************************************************************************)
(* git executes an installed hook (it runs only executable hook files),    *)
(* after the invocation that installed it has ended.                       *)
(***************************************************************************)
Dispatch ==
    /\ pc = "exited"
    /\ dispatched = None
    /\ \E h \in DOMAIN installed, found \in BOOLEAN, args \in GitArgs :
        /\ installed[h].executable
        /\ dispatched' = Some([hook |-> h, found |-> found, args |-> args,
                               result |-> sh(installed[h].text, found, args)])
    /\ UNCHANGED <<pc, argv, env, environ, hookDir, action, hook, scripts, idx,
                   results, children, launches, events, verdict, fault,
                   exitCode, installed>>

Next ==
    \/ PostInit
    \/ Help
    \/ Install
    \/ RunBegin
    \/ Launch
    \/ ChildExit
    \/ Status
    \/ Relay
    \/ Finish
    \/ Dispatch

Spec == Init /\ [][Next]_vars

SpecDiscovery == InitDiscovery /\ [][Next]_vars

SpecRelay == InitRelay /\ [][Next]_vars

SpecEnv == InitEnv /\ [][Next]_vars

(***************************************************************************)
(* Vocabulary of the properties.                                           *)
(***************************************************************************)
\* The invocation was a run that got to its verdict.
RunFinished == pc = "exited" /\ verdict # "none"

\* The invocation was a run that found its scripts.
Discovered == action = "run" /\ (pc \in {"loop", "communicate", "status", "relay"}
                                 \/ verdict # "none" \/ launches # <<>>)

Started(r) == Len(r.completed_process) = 1

ReturnCode(r) == r.completed_process[1].returncode

NumSucceeded ==
    Cardinality({i \in 1..Len(results) :
                    Started(results[i]) /\ ReturnCode(results[i]) = 0})

NumSkipped == Cardinality({i \in 1..Len(results) : ~Started(results[i])})

NumFailed ==
    Cardinality({i \in 1..Len(results) :
                    Started(results[i]) /\ ReturnCode(results[i]) # 0})

\* The verdict line the tool printed, if any.
VerdictLines ==
    {i \in 1..Len(events) : events[i].stream = "msg" /\ events[i].tag = "verdict"}

LaunchCount(name) ==
    Cardinality({i \in 1..Len(launches) : launches[i].name = name})

BehOf(i) == hookDir.entries[scripts[i].name].beh

(***************************************************************************)
(* C1.  With S, K, F the numbers of succeeded (started, return code 0),    *)
(* skipped (not started) and failed (started, return code not 0) results   *)
(* of a run, the verdict is FAILED if F > 0, else SUCCEEDED if S > 0, else *)
(* SKIPPED, and that is the verdict line printed.                          *)
(***************************************************************************)
C1_VerdictRule ==
    RunFinished =>
        /\ verdict = (IF NumFailed > 0 THEN "FAILED"
                      ELSE IF NumSucceeded > 0 THEN "SUCCEEDED"
                      ELSE "SKIPPED")
        /\ Cardinality(VerdictLines) = 1
        /\ \A i \in VerdictLines : events[i].text = << verdict >>

\* Two succeeded, one failed, one skipped: FAILED.
C1_Witness ==
    /\ RunFinished
    /\ NumSucceeded = 2 /\ NumFailed = 1 /\ NumSkipped = 1
    /\ verdict = "FAILED"

(***************************************************************************)
(* C2 as stated: a run that discovers no script (the hook directory may    *)
(* be missing) reports SUCCEEDED and exits with status 0.                  *)
(***************************************************************************)
C2_EmptyIsSucceeded ==
    (RunFinished /\ scripts = <<>>) =>
        (verdict = "SUCCEEDED" /\ exitCode = Some(0))

(***************************************************************************)
(* C2 as amended: a run that discovers no script reports SKIPPED and exits *)
(* with status 0; a missing hook directory is such a run, not an error.    *)
(***************************************************************************)
C2_EmptyIsSkipped ==
    /\ (RunFinished /\ scripts = <<>>) =>
            (verdict = "SKIPPED" /\ exitCode = Some(0))
    /\ (pc = "exited" /\ action = "run" /\ hookDir.kind # "dir") =>
            (fault = "none" /\ scripts = <<>> /\ launches = <<>>
             /\ verdict = "SKIPPED" /\ exitCode = Some(0))

C2_Witness ==
    /\ RunFinished
    /\ hookDir.kind = "absent"
    /\ scripts = <<>>
    /\ verdict = "SKIPPED"
    /\ exitCode = Some(0)

(***************************************************************************)
(* C3.  A run that completes its loop exits with status 0 when the verdict *)
(* is SUCCEEDED or SKIPPED and with status 1 when it is FAILED: the status *)
(* is 1 exactly when some script started and returned non-zero, whatever   *)
(* that script's own return code, and 0 otherwise.                         *)
(***************************************************************************)
C3_ExitCode ==
    RunFinished =>
        /\ verdict \in {"SUCCEEDED", "SKIPPED"} => exitCode = Some(0)
        /\ verdict = "FAILED" => exitCode = Some(1)
        /\ exitCode = (IF NumFailed > 0 THEN Some(1) ELSE Some(0))
        /\ fault = "none"

\* A script returned 2, another was skipped: the tool exits with 1.
C3_Witness ==
    /\ RunFinished
    /\ \E i \in 1..Len(results) :
            Started(results[i]) /\ ReturnCode(results[i]) = 2
    /\ NumSkipped > 0
    /\ exitCode = Some(1)

(***************************************************************************)
(* C4 as stated: when a run invocation has ended, every discovered script  *)
(* was launched exactly once.                                              *)
(***************************************************************************)
C4_EveryScriptLaunchedOnce ==
    (pc = "exited" /\ action = "run") =>
        \A i \in 1..Len(scripts) : LaunchCount(scripts[i].name) = 1

(***************************************************************************)
(* C5.  The scripts are launched in discovery order, and discovery order   *)
(* is the lexicographic order of the names of the executable entries,      *)
(* whatever the order in which the directory lists them; the results are   *)
(* recorded in the same order.                                             *)
(***************************************************************************)
LexLess(a, b) ==
    \E k \in 0..Len(a) :
        /\ k <= Len(b)
        /\ \A i \in 1..k : a[i] = b[i]
        /\ IF k = Len(a) THEN k < Len(b)
           ELSE k < Len(b) /\ a[k + 1] < b[k + 1]

C5_LexicographicOrder ==
    Discovered =>
        /\ \A i \in 1..(Len(scripts) - 1) :
                LexLess(scripts[i].name, scripts[i + 1].name)
        /\ {scripts[i].name : i \in 1..Len(scripts)}
                = {n \in DOMAIN hookDir.entries : hookDir.entries[n].xbit}
        /\ Len(launches) <= Len(scripts)
        /\ \A i \in 1..Len(launches) : launches[i].name = scripts[i].name
        /\ Len(results) <= Len(launches)
        /\ \A i \in 1..Len(results) :
                results[i].git_hook_script.name = scripts[i].name

\* Three scripts, named as 01, 10, 11, were run in that order.
C5_Witness ==
    /\ RunFinished
    /\ Len(launches) = 3
    /\ [i \in 1..3 |-> launches[i].name] = <<<<0, 1>>, <<1, 0>>, <<1, 1>>>>
    /\ [i \in 1..3 |-> results[i].git_hook_script.name]
            = <<<<0, 1>>, <<1, 0>>, <<1, 1>>>>

(***************************************************************************)
(* C6.  A script whose child process cannot be started gets a SKIPPED      *)
(* result, not a FAILED one; the failed spawn never ends the invocation,   *)
(* which goes on to the next script; and when no started script returns    *)
(* non-zero the verdict is not FAILED and the exit status is 0.            *)
(***************************************************************************)
StatusLinesOf(name) ==
    {events[i].tag : i \in {j \in 1..Len(events) :
        events[j].stream = "msg" /\ events[j].script = name
        /\ events[j].tag \in {"OK", "SKIPPED", "FAILED"}}}

C6_SpawnFailureIsSkipped ==
    Discovered =>
        /\ \A i \in 1..Len(launches) :
            ~BehOf(i).spawns =>
                \* the result is there as soon as the spawn has failed
                /\ Len(results) >= i
                /\ ~Started(results[i])
                /\ StatusLinesOf(scripts[i].name) \subseteq {"SKIPPED"}
                \* and the loop goes on: it ends at a later script or at the verdict
                /\ (pc = "exited" /\ i = Len(launches)) => RunFinished
                /\ (pc = "exited" /\ i < Len(scripts)) => Len(launches) > i
        /\ (RunFinished /\ \A i \in 1..Len(scripts) :
                                BehOf(i).spawns => BehOf(i).rc = 0) =>
                (verdict # "FAILED" /\ exitCode = Some(0) /\ fault = "none")

\* The first script could not start, the second ran and succeeded.
C6_Witness ==
    /\ RunFinished
    /\ Len(results) >= 2
    /\ ~BehOf(1).spawns /\ hookDir.entries[scripts[1].name].kind = "file"
    /\ ~Started(results[1])
    /\ "SKIPPED" \in StatusLinesOf(scripts[1].name)
    /\ Started(results[2])
    /\ verdict = "SUCCEEDED"
    /\ exitCode = Some(0)

(***************************************************************************)
(* C7 as stated: the discovered scripts are exactly the entries of the     *)
(* hook directory that are regular files with the executable bit set; no   *)
(* other entry is launched, gets a status line or gets a result.           *)
(***************************************************************************)
IsExecutableFile(name) ==
    /\ name \in DOMAIN hookDir.entries
    /\ hookDir.entries[name].kind = "file"
    /\ hookDir.entries[name].xbit

C7_OnlyExecutableFiles ==
    /\ Discovered =>
            {scripts[i].name : i \in 1..Len(scripts)}
                = {n \in DOMAIN hookDir.entries : IsExecutableFile(n)}
    /\ \A i \in 1..Len(launches) : IsExecutableFile(launches[i].name)
    /\ \A i \in 1..Len(results) :
            IsExecutableFile(results[i].git_hook_script.name)
    /\ \A i \in 1..Len(events) :
            events[i].script # <<>> => IsExecutableFile(events[i].script)

(***************************************************************************)
(* C8.  After each iteration of the loop, what the tool has written to     *)
(* its stdout is the captured stdout of every started script so far, each  *)
(* in full and in order, and likewise for stderr, whatever the return      *)
(* codes; nothing is written for a script that could not start.            *)
(***************************************************************************)
Writes(stream) ==
    LET IsWrite(e) == e.stream = stream
        w == SelectSeq(events, IsWrite)
    IN [i \in 1..Len(w) |-> <<w[i].script, w[i].text>>]

Captured(stream) ==
    LET started == SelectSeq(results, Started)
    IN [i \in 1..Len(started) |->
            <<started[i].git_hook_script.name,
              IF stream = "stdout" THEN started[i].completed_process[1].stdout
              ELSE started[i].completed_process[1].stderr>>]

OriginalPath == IF "PATH" \in DOMAIN environ THEN environ["PATH"] ELSE <<>>

C9_ChildEnvironment ==
    \A i \in 1..Len(launches) :
        LET e == launches[i].env
        IN /\ DOMAIN e = DOMAIN environ \cup {"PATH"}
           /\ e["PATH"] = <<SysExeDir, PathSep>> \o OriginalPath
           /\ \A k \in DOMAIN environ \ {"PATH"} : e[k] = environ[k]

\* Two scripts were launched; the original PATH was not empty.
C9_Witness ==
    /\ Len(launches) = 2
    /\ OriginalPath = <<"/usr/bin">>
    /\ "HOME" \in DOMAIN environ
    /\ launches[2].env["PATH"] = <<SysExeDir, PathSep, "/usr/bin">>

(***************************************************************************)
(* C10 as stated: an invocation that ends with a usage fault (no git       *)
(* repository, an invalid --chdir directory, invalid arguments) exits with *)
(* a non-zero status that is not the status of a FAILED verdict.           *)
(***************************************************************************)
C10_UsageExitDistinct ==
    fault \in {"usage", "argparse"} =>
        /\ exitCode # None
        /\ exitCode # Some(0)
        /\ exitCode # Some(hooks_exit("FAILED"))

(***************************************************************************)
(* C11 as stated: an invocation that ends with an internal fault exits     *)
(* with the status of the outermost handler, and no invocation that ends   *)
(* with a usage fault (invalid arguments included) or with the verdict     *)
(* FAILED exits with that status.                                          *)
(***************************************************************************)
C11_InternalExitReserved ==
    /\ fault = "internal" =>
            /\ pc = "exited"
            /\ exitCode = Some(fancy_ctx_aware_error_handler("Exception"))
            /\ exitCode # Some(0)
    /\ (fault \in {"usage", "argparse"} \/ verdict = "FAILED") =>
            exitCode # Some(fancy_ctx_aware_error_handler("Exception"))

(***************************************************************************)
(* C12.  In an invocation that ends with a usage fault (no git repository, *)
(* an invalid --chdir directory, invalid arguments) no hook script was     *)
(* launched: nothing was discovered, spawned, recorded or relayed.         *)
(***************************************************************************)
C12_UsageFaultLaunchesNothing ==
    fault \in {"usage", "argparse"} =>
        /\ pc = "exited"
        /\ launches = <<>>
        /\ children = {}
        /\ results = <<>>
        /\ scripts = <<>>
        /\ \A i \in 1..Len(events) : events[i].script = <<>>

\* A run of a hook directory with a script that would have started ended
\* with a usage fault before anything was launched.
C12_Witness ==
    /\ pc = "exited"
    /\ fault = "usage"
    /\ argv = RunArgv
    /\ hookDir.kind = "dir"
    /\ \E n \in DOMAIN hookDir.entries :
            hookDir.entries[n].xbit /\ hookDir.entries[n].beh.spawns
    /\ launches = <<>>

(***************************************************************************)
(* C13 as stated: a fault raised while one script is launched, run or its  *)
(* output captured never ends the invocation: once a script was launched   *)
(* the invocation ends only with a verdict, every launched script having a *)
(* SKIPPED or FAILED or OK result and the later ones having been launched. *)
(***************************************************************************)
C13_ScriptFaultContained ==
    (pc = "exited" /\ launches # <<>>) =>
        /\ RunFinished
        /\ fault = "none"
        /\ Len(results) = Len(scripts)
        /\ Len(launches) = Len(scripts)

(***************************************************************************)
(* C14 as stated: for every hook of the registry and every list of         *)
(* forwarded git arguments, empty or not, the command line                 *)
(* `run <hook> -- <git-args>` is accepted: it does not end with an         *)
(* argument error, and the invocation goes on as a run of that hook.       *)
(***************************************************************************)
C14_ForwardedArgsAccepted ==
    (/\ pc # "post_init"
     /\ Len(argv) >= 3
     /\ argv[1] = "run" /\ argv[2] \in GIT_HOOKS /\ argv[3] = "--") =>
        /\ fault # "argparse"
        /\ fault = "none" => (action = "run" /\ hook = argv[2])

(***************************************************************************)
(* C15.  An installed hook is fail-open: when the interpreter recorded at  *)
(* install time is not found it writes a warning to stderr and exits 0     *)
(* without starting the tool, so no hook script runs; when it is found it  *)
(* replaces itself by the tool with the arguments `run <hook> --` followed *)
(* by git's arguments.  A successful install has written such a hook, with *)
(* the executable bit, for every hook of the registry.                     *)
(***************************************************************************)
C15_DispatcherFailOpen ==
    /\ (pc = "exited" /\ action = "install" /\ fault = "none") =>
            /\ DOMAIN installed = GIT_HOOKS
            /\ \A h \in GIT_HOOKS :
                    /\ installed[h].executable
                    /\ installed[h].text.hook = h
                    /\ installed[h].text.sys_exe = sys_executable
    /\ dispatched # None =>
            LET d == dispatched[1]
            IN IF d.found
               THEN /\ d.result.exec =
                        Some(<<sys_executable, FILE, "run", d.hook, "--">>
                                \o d.args)
                    /\ d.result.stderr = <<>>
               ELSE /\ d.result.exec = None
                    /\ d.result.status = Some(0)
                    /\ d.result.stderr # <<>>
                    /\ launches = <<>>

\* git ran the installed pre-commit hook with an argument while the
\* interpreter was missing: a warning, exit 0, the tool not started.
C15_Witness ==
    /\ action = "install" /\ fault = "none"
    /\ dispatched # None
    /\ dispatched[1].hook = "pre-commit"
    /\ ~dispatched[1].found
    /\ dispatched[1].args = <<"a">>
    /\ dispatched[1].result.status = Some(0)
    /\ dispatched[1].result.exec = None

(***************************************************************************)
(* C16.  At most one child process of a hook script exists at any moment:  *)
(* a child that exists is the one of the script launched last, every       *)
(* script before it has its result, and no child exists when the loop      *)
(* launches the next script.                                               *)
(***************************************************************************)
C16_OneChildAtATime ==
    /\ Cardinality(children) <= 1
    /\ children # {} =>
            /\ pc = "communicate"
            /\ children = {idx}
            /\ idx = Len(launches)
            /\ Len(results) = idx - 1
    /\ pc \in {"loop", "status", "relay", "exited"} => children = {}

\* The second script's child exists; the first script's child has ended.
C16_Witness ==
    /\ children = {2}
    /\ Len(launches) = 2
    /\ Len(results) = 1
    /\ Started(results[1])

(***************************************************************************)
(* C17.  What a run emits about its scripts is grouped per script and the  *)
(* groups are in execution order, never interleaved: a script's group is   *)
(* its status line followed by its relayed stderr and stdout; nothing of   *)
(* a group is emitted before the script's child has ended and its result   *)
(* is recorded, and the group is complete before the next script is        *)
(* launched (and before the verdict line, which is the last line).         *)
(* Emitting is the call that writes to ctx.console, ctx.stderr or          *)
(* ctx.stdout; when those stream objects hand their buffers to the         *)
(* operating system is not part of this model.                             *)
(***************************************************************************)
IsScriptEvent(e) == e.script # <<>>

ScriptIndex(name) == CHOOSE i \in 1..Len(scripts) : scripts[i].name = name

GroupOf(i) ==
    LET InGroup(e) == e.script = scripts[i].name
    IN SelectSeq(events, InGroup)

GroupComplete(i) ==
    LET g == GroupOf(i)
    IN /\ Len(g) = (IF Started(results[i]) THEN 3 ELSE 1)
       /\ {g[k].stream : k \in 2..Len(g)}
            = (IF Started(results[i]) THEN {"stdout", "stderr"} ELSE {})

C17_GroupedPerScript ==
    Discovered =>
        LET per == SelectSeq(events, IsScriptEvent)
        IN /\ \A j \in 1..(Len(per) - 1) :
                ScriptIndex(per[j].script) <= ScriptIndex(per[j + 1].script)
           /\ \A i \in 1..Len(scripts) :
                LET g == GroupOf(i)
                IN /\ g # <<>> =>
                        /\ i <= Len(results)
                        /\ i \notin children
                        /\ g[1].stream = "msg"
                        /\ g[1].tag \in {"OK", "SKIPPED", "FAILED"}
                        /\ \A k \in 2..Len(g) :
                                g[k].stream \in {"stdout", "stderr"}
                   /\ (i < Len(launches) \/ RunFinished) => GroupComplete(i)
           /\ \A i \in VerdictLines : i = Len(events)

\* Two scripts ran, the first with output on stdout: running, then the
\* first group, then the second group, then the verdict.
C17_Witness ==
    /\ RunFinished
    /\ Len(results) = 2
    /\ Started(results[1]) /\ Started(results[2])
    /\ results[1].completed_process[1].stdout = <<"a">>
    /\ [i \in 1..Len(events) |-> <<events[i].tag, events[i].script>>]
        = << <<"running", <<>>>>,
             <<"OK", scripts[1].name>>,
             <<"write", scripts[1].name>>,
             <<"write", scripts[1].name>>,
             <<"FAILED", scripts[2].name>>,
             <<"write", scripts[2].name>>,
             <<"write", scripts[2].name>>,
             <<"verdict", <<>>>> >>

(***************************************************************************)
(* C18.  Exactly one of succeeded, skipped, failed holds of every result;  *)
(* it is succeeded exactly when the script started and returned 0, skipped *)
(* exactly when it could not be started, failed exactly when it started    *)
(* and returned non-zero; the one status line printed for the result says  *)
(* OK, SKIPPED or FAILED accordingly; and a result, once recorded, is      *)
(* never changed or removed.                                               *)
(***************************************************************************)
StatusPrinted(i) ==
    i < idx \/ (i = idx /\ pc = "relay") \/ RunFinished

StatusEvents(i) ==
    {j \in 1..Len(events) : /\ events[j].stream = "msg"
                            /\ events[j].script = scripts[i].name}

C18_ResultClassified ==
    \A i \in 1..Len(results) :
        LET r == results[i]
            b == BehOf(i)
            expected == IF ~b.spawns THEN "SKIPPED"
                        ELSE IF b.rc = 0 THEN "OK" ELSE "FAILED"
        IN /\ Cardinality({c \in {"succeeded", "skipped", "failed"} :
                    \/ c = "succeeded" /\ succeeded(r)
                    \/ c = "skipped" /\ skipped(r)
                    \/ c = "failed" /\ failed(r)}) = 1
           /\ succeeded(r) <=> (b.spawns /\ b.rc = 0)
           /\ skipped(r) <=> ~b.spawns
           /\ failed(r) <=> (b.spawns /\ b.rc # 0)
           /\ \A j \in StatusEvents(i) : events[j].tag = expected
           /\ Cardinality(StatusEvents(i)) = (IF StatusPrinted(i) THEN 1 ELSE 0)

C18_ResultsKept ==
    /\ Len(results') >= Len(results)
    /\ \A i \in 1..Len(results) : results'[i] = results[i]

C18_ResultClassifiedOnce == [](C18_ResultClassified) /\ [][C18_ResultsKept]_vars

\* One result of each kind, each with its status line.
C18_Witness ==
    /\ RunFinished
    /\ Len(results) = 3
    /\ succeeded(results[1]) /\ skipped(results[2]) /\ failed(results[3])
    /\ [i \in 1..3 |-> {events[j].tag : j \in StatusEvents(i)}]
            = <<{"OK"}, {"SKIPPED"}, {"FAILED"}>>

(***************************************************************************)
(* C19 as stated: there is no timeout.  A run whose discovered scripts all *)
(* terminate ends by printing exactly one verdict line, after every        *)
(* per-script line, and exiting; while a script that never terminates is   *)
(* running, the invocation has not ended, has launched no later script and *)
(* has printed no verdict.                                                 *)
(***************************************************************************)
C19_TerminatingRunEndsWithVerdict ==
    /\ (/\ pc = "exited"
        /\ Discovered
        /\ \A i \in 1..Len(scripts) : ~BehOf(i).hangs) =>
            /\ RunFinished
            /\ VerdictLines = {Len(events)}
            /\ Len(results) = Len(scripts)
    /\ \A i \in 1..Len(launches) :
            BehOf(i).hangs =>
                /\ pc = "communicate"
                /\ exitCode = None
                /\ Len(launches) = i
                /\ VerdictLines = {}
                /\ verdict = "none"

====
